---------------------------- MODULE Spec2Model ----------------------------
(***************************************************************************)
(* A model of the trace Redactor (src/unnamed/part_000): the path          *)
(* compiler (parsePath), the tree walker (traverseAndRedact,               *)
(* recursiveSearch), the leaf applier (redactValue) and the rolling hash   *)
(* (hashValue), driven by the loops of redact.                             *)
(*                                                                         *)
(* JavaScript values are tagged records [k |-> kind, v |-> payload]:       *)
(*   "str"   v a sequence of one-character strings                         *)
(*   "num"   v an integer          "bool"  v a BOOLEAN                     *)
(*   "null", "undef"               "fn"    a function object               *)
(*   "obj"   v a function from own keys (strings) to values                *)
(*   "arr"   v a sequence of values                                        *)
(*   "throw" an exception raised while the value was being computed        *)
(* Strings (values, keys, paths) are sequences of one-character strings,   *)
(* so that split, includes, replace and charCodeAt are computed.           *)
(***************************************************************************)
EXTENDS Integers, Sequences, FiniteSets, TLC

(***************************************************************************)
(* Bounds of the checked inputs.                                           *)
(***************************************************************************)
MaxNodes == 4       \* nodes of a record drawn for the rule-list runs
MaxNodesOne == 5    \* nodes of a record drawn for the single-path runs
MaxSegs == 2        \* tokens of a path drawn for the rule-list runs
MaxSegsOne == 3     \* tokens of a path drawn for the single-path runs
MaxApps == 2        \* path applications of a whole rule list
MaxStrLen == 6      \* characters of a string drawn for hashValue
MaxNum == 12        \* magnitude of a number drawn for hashValue

(***************************************************************************)
(* Strings.                                                                *)
(***************************************************************************)
Ascii ==
  << " ", "!", "\"", "#", "$", "%", "&", "'", "(", ")", "*", "+", ",", "-",
     ".", "/", "0", "1", "2", "3", "4", "5", "6", "7", "8", "9", ":", ";",
     "<", "=", ">", "?", "@", "A", "B", "C", "D", "E", "F", "G", "H", "I",
     "J", "K", "L", "M", "N", "O", "P", "Q", "R", "S", "T", "U", "V", "W",
     "X", "Y", "Z", "[", "\\", "]", "^", "_", "grave", "a", "b", "c", "d", "e",
     "f", "g", "h", "i", "j", "k", "l", "m", "n", "o", "p", "q", "r", "s",
     "t", "u", "v", "w", "x", "y", "z", "{", "|", "}", "~" >>

\* str.charCodeAt(i) of an ASCII string (i counted from 1 here); the table
\* is codes 32..126, with a placeholder at 96 (the grave accent cannot be
\* written in a string here).
charCodeAt(str, i) == 31 + (CHOOSE n \in 1..Len(Ascii) : Ascii[n] = str[i])

\* Whether pat occurs in str at position i.
MatchAt(str, pat, i) ==
  /\ i + Len(pat) - 1 <= Len(str)
  /\ \A j \in 1..Len(pat) : str[i + j - 1] = pat[j]

\* str.includes(pat)
includes(str, pat) == \E i \in 1..Len(str) : MatchAt(str, pat, i)

\* str.replace(pat, ''): the first occurrence of pat is taken out.
replaceFirst(str, pat) ==
  IF ~includes(str, pat) THEN str
  ELSE LET i == CHOOSE n \in 1..Len(str) :
                  /\ MatchAt(str, pat, n)
                  /\ \A m \in 1..(n - 1) : ~MatchAt(str, pat, m)
       IN  SubSeq(str, 1, i - 1) \o SubSeq(str, i + Len(pat), Len(str))

\* str.split(sep) for a one-character separator: always at least one part.
RECURSIVE split(_, _)
split(str, sep) ==
  IF \A i \in 1..Len(str) : str[i] # sep THEN << str >>
  ELSE LET i == CHOOSE n \in 1..Len(str) :
                  /\ str[n] = sep
                  /\ \A m \in 1..(n - 1) : str[m] # sep
       IN  << SubSeq(str, 1, i - 1) >> \o split(SubSeq(str, i + 1, Len(str)), sep)

\* s.padStart(n, ch)
RECURSIVE padStart(_, _, _)
padStart(s, n, ch) == IF Len(s) >= n THEN s ELSE padStart(<< ch >> \o s, n, ch)

Digits == << "0", "1", "2", "3", "4", "5", "6", "7", "8", "9",
             "a", "b", "c", "d", "e", "f" >>

\* n.toString(radix) of a natural number n.
RECURSIVE natToString(_, _)
natToString(n, radix) ==
  IF n < radix THEN << Digits[n + 1] >>
  ELSE natToString(n \div radix, radix) \o << Digits[(n % radix) + 1] >>

(***************************************************************************)
(* Values.                                                                 *)
(***************************************************************************)
Str(s) == [k |-> "str", v |-> s]
Num(n) == [k |-> "num", v |-> n]
Bool(b) == [k |-> "bool", v |-> b]
Null == [k |-> "null", v |-> 0]
Undefined == [k |-> "undef", v |-> 0]
Fn == [k |-> "fn", v |-> 0]
TypeError == [k |-> "throw", v |-> 0]
Obj(f) == [k |-> "obj", v |-> f]
Arr(s) == [k |-> "arr", v |-> s]
EmptyFn == [x \in {} |-> x]

\* Array.isArray(v)
isArray(v) == v.k = "arr"

\* typeof v === 'object' (true of null as well)
typeofObject(v) == v.k \in {"obj", "arr", "null"}

\* v === null || v === undefined
isNullish(v) == v.k \in {"null", "undef"}

\* The members every plain object inherits from Object.prototype that the
\* checked paths name; each is a function.
InheritedKeys == { << "v", "a", "l", "u", "e", "O", "f" >> }

\* Object.keys(obj): the own keys.
keys(obj) == DOMAIN obj.v

\* key in obj, for a plain object: own or inherited.
in(key, obj) == key \in keys(obj) \/ key \in InheritedKeys

\* obj[key], for a plain object.
get(obj, key) ==
  IF key \in keys(obj) THEN obj.v[key]
  ELSE IF key \in InheritedKeys THEN Fn
  ELSE Undefined

\* obj[key] = value: sets or creates the own property.
set(obj, key, value) ==
  Obj([x \in keys(obj) \cup {key} |-> IF x = key THEN value ELSE obj.v[x]])

\* obj[key] = undefined: the key stays.
deleteAsUndefined(obj, key) ==
  IF key \in DOMAIN obj.v
  THEN Obj([x \in DOMAIN obj.v |-> IF x = key THEN Undefined ELSE obj.v[x]])
  ELSE obj

\* delete obj[key]: only an own property goes away.
delete(obj, key) == Obj([x \in keys(obj) \ {key} |-> obj.v[x]])

(***************************************************************************)
(* hashValue: 32-bit arithmetic on pairs << high, low >> of 16-bit halves  *)
(* (2^32 and |-2^31| are not integers TLC can hold).  The        *)
(* additions of the code are done on doubles and cut to 32 bits by         *)
(* hash & hash; as the cut is the residue modulo 2^32, the halves compute  *)
(* the same int32.                                                         *)
(***************************************************************************)
Half == 65536

\* The 32-bit word of a signed int32.
Word(n) == << (n \div Half) % Half, n % Half >>

\* The signed int32 a word stands for (ToInt32).
ToInt32(w) == (IF w[1] >= Half \div 2 THEN w[1] - Half ELSE w[1]) * Half + w[2]

Add32(a, b) ==
  LET lo == a[2] + b[2]
  IN  << (a[1] + b[1] + (lo \div Half)) % Half, lo % Half >>

Neg32(a) ==
  IF a[2] = 0 THEN << (Half - a[1]) % Half, 0 >>
  ELSE << (Half - 1 - a[1]) % Half, Half - a[2] >>

Sub32(a, b) == Add32(a, Neg32(b))

\* w << 5
Shl5(w) ==
  LET lo == w[2] * 32
  IN  << (w[1] * 32 + (lo \div Half)) % Half, lo % Half >>

\* One turn of the loop: hash = ((hash << 5) - hash) + char; hash = hash & hash
hashStep(hash, char) ==
  ToInt32(Add32(Sub32(Shl5(Word(hash)), Word(hash)), Word(char)))

\* Math.abs(hash), as a word: 2^31 for the minimum int32.
absWord(hash) == IF hash < 0 THEN Neg32(Word(hash)) ELSE Word(hash)

\* w.toString(16) of a word: no leading zeros.
wordToString16(w) ==
  IF w[1] = 0 THEN natToString(w[2], 16)
  ELSE natToString(w[1], 16) \o padStart(natToString(w[2], 16), 4, "0")

\* The digest without padStart.
formatHashUnpadded(hash) ==
  << "[", "H", "A", "S", "H", ":" >> \o wordToString16(absWord(hash)) \o << "]" >>

\* `[HASH:${Math.abs(hash).toString(16).padStart(8, '0')}]`
formatHash(hash) ==
  << "[", "H", "A", "S", "H", ":" >>
    \o padStart(wordToString16(absWord(hash)), 8, "0") \o << "]" >>

\* JSON.stringify(value) of a primitive: undefined for what JSON cannot write.
stringify(value) ==
  CASE value.k = "str" -> Str(<< "\"" >> \o value.v \o << "\"" >>)
    [] value.k = "num" ->
         Str(IF value.v < 0 THEN << "-" >> \o natToString(0 - value.v, 10)
             ELSE natToString(value.v, 10))
    [] value.k = "bool" ->
         Str(IF value.v THEN << "t", "r", "u", "e" >>
             ELSE << "f", "a", "l", "s", "e" >>)
    [] value.k = "null" -> Str(<< "n", "u", "l", "l" >>)
    [] OTHER -> Undefined

\* typeof value === 'string' ? value : JSON.stringify(value)
hashInput(value) == IF value.k = "str" THEN value ELSE stringify(value)

\* The value of hash after the first n turns of the loop over str.  (The
\* test h \in Int only has h computed before the turn is, which keeps the
\* evaluation of a long string shallow.)
RECURSIVE hashLoop(_, _)
hashLoop(str, n) ==
  IF n = 0 THEN 0
  ELSE LET h == hashLoop(str, n - 1)
       IN  IF h \in Int THEN hashStep(h, charCodeAt(str, n)) ELSE h

\* hashValue(value): str.length throws when JSON.stringify gave undefined.
hashValue(value) ==
  LET str == hashInput(value)
  IN  IF str.k # "str" THEN TypeError
      ELSE Str(formatHash(hashLoop(str.v, Len(str.v))))

(***************************************************************************)
(* Rules.  A rule is [paths, action, replacement]; replacement is          *)
(* Undefined when the rule gives none.                                     *)
(***************************************************************************)
Rule(paths, action, replacement) ==
  [paths |-> paths, action |-> action, replacement |-> replacement]

Star == << "*" >>
Brackets == << "[", "]" >>
REDACTED == << "[", "R", "E", "D", "A", "C", "T", "E", "D", "]" >>

(***************************************************************************)
(* Path compiler.                                                          *)
(***************************************************************************)
\* The compiler that emits the array suffix as a segment of its own.
RECURSIVE parsePartsArraySegment(_, _)
parsePartsArraySegment(parts, segments) ==
  IF parts = << >> THEN segments
  ELSE LET part == Head(parts)
           baseName == replaceFirst(part, Brackets)
       IN  parsePartsArraySegment(Tail(parts),
             IF part = Star THEN Append(segments, Star)
             ELSE IF includes(part, Brackets)
                  THEN segments \o (IF baseName # << >> THEN << baseName, Brackets >>
                                    ELSE << Brackets >>)
             ELSE Append(segments, part))

RECURSIVE parseParts(_, _)
parseParts(parts, segments) ==
  IF parts = << >> THEN segments
  ELSE LET part == Head(parts)
           baseName == replaceFirst(part, Brackets)
       IN  parseParts(Tail(parts),
             IF part = Star THEN Append(segments, Star)
             ELSE IF includes(part, Brackets)
                  THEN (IF baseName # << >> THEN Append(segments, baseName)
                        ELSE segments)
             ELSE Append(segments, part))

parsePath(path) == parseParts(split(path, "."), << >>)

(***************************************************************************)
(* Leaf applier.  The walker mutates the clone in place; here every        *)
(* operator returns the node as it is after the call.  A record is a tree: *)
(* no node is referenced twice, so a mutation shows at one place only.     *)
(* An exception is the value TypeError left at the key being written; the  *)
(* caller (applyRedaction's action) stops on it.                           *)
(***************************************************************************)
\* typeof value === 'object' && value !== null
isContainer(value) == typeofObject(value) /\ value.k # "null"

\* rule.replacement || '[REDACTED]': an empty replacement is lost.
maskValueOr(rule) ==
  IF isNullish(rule.replacement) \/ rule.replacement = Str(<< >>)
  THEN Str(REDACTED) ELSE rule.replacement

\* rule.replacement ?? '[REDACTED]'
maskValue(rule) ==
  IF isNullish(rule.replacement) THEN Str(REDACTED) ELSE rule.replacement

\* The applier that skips a container for mask and hash only.
redactValueRemoveAny(obj, key, rule) ==
  IF obj.k = "null" \/ ~typeofObject(obj) \/ ~in(key, obj) THEN obj
  ELSE IF rule.action = "remove" THEN delete(obj, key)
  ELSE IF isContainer(get(obj, key)) THEN obj
  ELSE CASE rule.action = "mask" -> set(obj, key, maskValue(rule))
         [] rule.action = "hash" -> set(obj, key, hashValue(get(obj, key)))
         [] OTHER -> obj

redactValue(obj, key, rule) ==
  IF obj.k = "null" \/ ~typeofObject(obj) \/ ~in(key, obj) THEN obj
  ELSE IF isContainer(get(obj, key)) THEN obj
  ELSE CASE rule.action = "mask" -> set(obj, key, maskValue(rule))
         [] rule.action = "remove" -> delete(obj, key)
         [] rule.action = "hash" -> set(obj, key, hashValue(get(obj, key)))
         [] OTHER -> obj

\* The child reached through obj[key] was mutated in place: obj holds it at
\* the same own key; an inherited member is no property of obj, and a key
\* that was deleted is not put back.
withChild(obj, key, child) ==
  IF key \in keys(obj) THEN set(obj, key, child) ELSE obj

(***************************************************************************)
(* Tree walker.                                                            *)
(***************************************************************************)
RECURSIVE recursiveSearch(_, _, _)
RECURSIVE searchKeys(_, _, _, _)

\* The search that looks at the keys of the mapping and goes no deeper.
searchKeysShallow(obj, todo, targetKey, rule) ==
  IF targetKey \in todo THEN redactValue(obj, targetKey, rule) ELSE obj

\* The search that stops at the first key it redacts.
searchKeysFirst(obj, todo, targetKey, rule) ==
  IF todo = {} THEN obj
  ELSE LET key == CHOOSE x \in todo : TRUE
       IN  IF key = targetKey THEN redactValue(obj, key, rule)
           ELSE searchKeys(
                  withChild(obj, key, recursiveSearch(get(obj, key), targetKey, rule)),
                  todo \ {key}, targetKey, rule)

\* for (const key of Object.keys(obj)) { ... }: todo are the keys still to
\* visit, of the keys the object had when the loop began.
searchKeys(obj, todo, targetKey, rule) ==
  IF todo = {} THEN obj
  ELSE LET key == CHOOSE x \in todo : TRUE
           o1 == IF key = targetKey THEN redactValue(obj, key, rule) ELSE obj
           o2 == withChild(o1, key, recursiveSearch(get(o1, key), targetKey, rule))
       IN  searchKeys(o2, todo \ {key}, targetKey, rule)

recursiveSearch(obj, targetKey, rule) ==
  IF isNullish(obj) THEN obj
  ELSE IF isArray(obj)
       THEN Arr([n \in DOMAIN obj.v |-> recursiveSearch(obj.v[n], targetKey, rule)])
  ELSE IF ~typeofObject(obj) THEN obj
  ELSE searchKeys(obj, keys(obj), targetKey, rule)

RECURSIVE traverseAndRedact(_, _, _, _)
RECURSIVE traverseKeys(_, _, _, _, _)

\* The mid-path wildcard that also looks for the next segment further down:
\* each value is walked from the next segment and from the wildcard again.
traverseKeysDeep(obj, todo, parts, index, rule) ==
  IF todo = {} THEN obj
  ELSE LET key == CHOOSE x \in todo : TRUE
           o1 == withChild(obj, key,
                   traverseAndRedact(
                     traverseAndRedact(get(obj, key), parts, index, rule),
                     parts, index - 1, rule))
       IN  traverseKeys(o1, todo \ {key}, parts, index, rule)

\* for (const key of Object.keys(obj)) traverseAndRedact(obj[key], ...)
traverseKeys(obj, todo, parts, index, rule) ==
  IF todo = {} THEN obj
  ELSE LET key == CHOOSE x \in todo : TRUE
           o1 == withChild(obj, key,
                   traverseAndRedact(get(obj, key), parts, index, rule))
       IN  traverseKeys(o1, todo \ {key}, parts, index, rule)

\* The items of an array are walked unless they are arrays themselves.
traverseItemsFlat(arr, parts, index, rule) ==
  Arr([n \in DOMAIN arr.v |->
         IF isArray(arr.v[n]) THEN arr.v[n]
         ELSE traverseAndRedact(arr.v[n], parts, index, rule)])

\* for (const item of obj) traverseAndRedact(item, parts, index, rule)
traverseItems(arr, parts, index, rule) ==
  Arr([n \in DOMAIN arr.v |-> traverseAndRedact(arr.v[n], parts, index, rule)])

\* index counts from 0 as in the code: parts[index] is parts[index + 1] here.
traverseAndRedact(obj, parts, index, rule) ==
  IF index >= Len(parts) \/ isNullish(obj) THEN obj
  ELSE IF isArray(obj) THEN traverseItems(obj, parts, index, rule)
  ELSE IF ~typeofObject(obj) \/ obj.k = "null" THEN obj
  ELSE LET part == parts[index + 1]
           isLast == index = Len(parts) - 1
           nextIndex == index + 1
           isNextLast == nextIndex = Len(parts) - 1
       IN  IF part = Star
           THEN (IF isNextLast
                 THEN recursiveSearch(obj, parts[nextIndex + 1], rule)
                 ELSE traverseKeys(obj, keys(obj), parts, nextIndex, rule))
           ELSE IF isLast THEN redactValue(obj, part, rule)
           ELSE IF in(part, obj)
                THEN withChild(obj, part,
                       traverseAndRedact(get(obj, part), parts, index + 1, rule))
           ELSE obj

applyRedaction(obj, path, rule) == traverseAndRedact(obj, parsePath(path), 0, rule)

\* Whether an exception was raised somewhere in the tree.
RECURSIVE threw(_)
threw(value) ==
  CASE value.k = "throw" -> TRUE
    [] value.k = "obj" -> \E x \in DOMAIN value.v : threw(value.v[x])
    [] value.k = "arr" -> \E i \in DOMAIN value.v : threw(value.v[i])
    [] OTHER -> FALSE

(***************************************************************************)
(* The inputs the runs draw from.                                          *)
(***************************************************************************)
KeyA == << "a" >>
KeyB == << "b" >>
ValueOf == << "v", "a", "l", "u", "e", "O", "f" >>
KeySeq == << KeyA, KeyB >>
Prims == { Str(<< "s" >>), Null }

RECURSIVE Values(_, _)
RECURSIVE Forests(_, _)
RECURSIVE MapsOver(_, _, _)

\* The values of exactly n nodes, the mappings among them keyed from all.
Values(all, n) ==
  IF n = 0 THEN {}
  ELSE (IF n = 1 THEN Prims ELSE {})
       \cup { Arr(f) : f \in Forests(all, n - 1) }
       \cup { Obj(g) : g \in MapsOver(all, all, n - 1) }

\* The sequences of values of m nodes in all.
Forests(all, m) ==
  IF m = 0 THEN { << >> }
  ELSE UNION { { << v >> \o f : v \in Values(all, i), f \in Forests(all, m - i) } :
               i \in 1..m }

\* The mappings over some of the keys ks with values of m nodes in all.
MapsOver(all, ks, m) ==
  IF ks = << >> THEN (IF m = 0 THEN { EmptyFn } ELSE {})
  ELSE MapsOver(all, Tail(ks), m)
       \cup UNION { { (Head(ks) :> v) @@ g :
                        v \in Values(all, i), g \in MapsOver(all, Tail(ks), m - i) } :
                    i \in 1..m }

\* The records (a trace is a mapping) of at most n nodes, keyed from all.
Records(all, n) == UNION { { Obj(g) : g \in MapsOver(all, all, m) } : m \in 0..(n - 1) }

\* tokens.join('.')
RECURSIVE join(_)
join(tokens) ==
  IF Len(tokens) = 1 THEN tokens[1]
  ELSE tokens[1] \o << "." >> \o join(Tail(tokens))

RECURSIVE TokenSeqs(_, _)
TokenSeqs(tokens, n) ==
  IF n = 0 THEN { << >> }
  ELSE { << t >> \o ts : t \in tokens, ts \in TokenSeqs(tokens, n - 1) }

\* The paths of 1..n tokens.
PathsUpTo(tokens, n) == UNION { { join(ts) : ts \in TokenSeqs(tokens, m) } : m \in 1..n }

\* The rule lists of n path applications in all, over the given paths and
\* the given [action, replacement] kinds.
RECURSIVE PathSeqs(_, _)
PathSeqs(paths, n) ==
  IF n = 0 THEN { << >> }
  ELSE { << p >> \o ps : p \in paths, ps \in PathSeqs(paths, n - 1) }

RECURSIVE RuleLists(_, _, _)
RuleLists(paths, kinds, n) ==
  IF n = 0 THEN { << >> }
  ELSE UNION { { << Rule(ps, kd.action, kd.replacement) >> \o rest :
                   ps \in PathSeqs(paths, j), kd \in kinds,
                   rest \in RuleLists(paths, kinds, n - j) } : j \in 1..n }

Kind(action, replacement) == [action |-> action, replacement |-> replacement]

KindsMain == { Kind("mask", Undefined), Kind("remove", Undefined), Kind("hash", Undefined) }
KindsOne == KindsMain \cup { Kind("mask", Str(<< "X" >>)), Kind("mask", Str(<< >>)) }

\* The main runs have a key named as a member every object inherits.
RecordsMain == Records(<< KeyA, ValueOf >>, MaxNodes)
RecordsOne == Records(KeySeq, MaxNodesOne)
RecordsRemove == Records(KeySeq, MaxNodes)
PathsMain == PathsUpTo({ KeyA, Star, ValueOf }, MaxSegs)
PathsOne == PathsUpTo({ KeyA, KeyB, Star }, MaxSegsOne)
RulesMain == UNION { RuleLists(PathsMain, KindsMain, n) : n \in 0..MaxApps }
RulesOne == RuleLists(PathsOne, KindsOne, 1)

(***************************************************************************)
(* The state.  heap maps each object identity to the tree it roots: trace  *)
(* is the caller's record, redacted the clone redact works on (0 before    *)
(* the call).  ri and pi are the positions of the two loops of redact.     *)
(* before is the record as the caller passed it.  value, str, i, hash and   *)
(* digest are the argument and the locals of a call of hashValue.          *)
(***************************************************************************)
VARIABLES rules, heap, trace, redacted, ri, pi, pc, before,
          value, str, i, hash, digest

vars == << rules, heap, trace, redacted, ri, pi, pc, before,
           value, str, i, hash, digest >>
hashVars == << value, str, i, hash, digest >>
redactVars == << rules, heap, trace, redacted, ri, pi, before >>

\* The clone that is the caller's own object: no copy is made.
aliasClone(h, ref) == [ref |-> ref, heap |-> h]

\* structuredClone(h[ref]): a new object, structurally equal to h[ref].
structuredClone(h, ref) ==
  LET fresh == Cardinality(DOMAIN h) + 1
  IN  [ref |-> fresh, heap |-> [x \in DOMAIN h \cup {fresh} |->
                                  IF x = fresh THEN h[ref] ELSE h[x]]]

InitRedact(records, rulesets) ==
  /\ rules \in rulesets
  /\ \E r \in records : heap = [x \in {1} |-> r] /\ before = r
  /\ trace = 1
  /\ redacted = 0
  /\ ri = 0
  /\ pi = 0
  /\ pc = "ready"
  /\ value = Undefined
  /\ str = Undefined
  /\ i = 0
  /\ hash = 0
  /\ digest = Undefined

\* redact(trace), line 8: the clone is made.
Redact ==
  /\ pc = "ready"
  /\ LET c == structuredClone(heap, trace)
     IN  /\ heap' = c.heap
         /\ redacted' = c.ref
  /\ ri' = 1
  /\ pi' = 1
  /\ pc' = "loop"
  /\ UNCHANGED << rules, trace, before, hashVars >>

\* The position after path p of rule r in the two for-of loops.
nextPosition(rs, r, p) ==
  IF p < Len(rs[r].paths) THEN << r, p + 1 >> ELSE << r + 1, 1 >>

\* One turn of the inner loop, lines 10-14: path pi of rule ri is applied to
\* the object redacted refers to; an exception ends the call.
ApplyRedaction ==
  /\ pc = "loop"
  /\ ri <= Len(rules)
  /\ LET rule == rules[ri]
         after == applyRedaction(heap[redacted], rule.paths[pi], rule)
     IN  /\ heap' = [heap EXCEPT ![redacted] = after]
         /\ pc' = IF threw(after) THEN "threw" ELSE "loop"
         /\ ri' = nextPosition(rules, ri, pi)[1]
         /\ pi' = nextPosition(rules, ri, pi)[2]
  /\ UNCHANGED << rules, trace, redacted, before, hashVars >>

\* return redacted, line 16.
Return ==
  /\ pc = "loop"
  /\ ri > Len(rules)
  /\ pc' = "returned"
  /\ UNCHANGED << rules, heap, trace, redacted, ri, pi, before, hashVars >>

NextRedact == Redact \/ ApplyRedaction \/ Return

Init == InitRedact(RecordsMain, RulesMain)
Spec == Init /\ [][NextRedact]_vars

InitOne == InitRedact(RecordsOne, RulesOne)
SpecOne == InitOne /\ [][NextRedact]_vars

\* The remove-only rule lists, with the array suffix among the tokens.
KindsRemove == { Kind("remove", Undefined) }
PathsRemove == PathsUpTo({ KeyA, KeyB, Star, KeyA \o Brackets }, MaxSegs)
RulesRemove == UNION { RuleLists(PathsRemove, KindsRemove, n) : n \in 0..MaxApps }

InitRemove == InitRedact(RecordsRemove, RulesRemove)
SpecRemove == InitRemove /\ [][NextRedact]_vars

\* The single-path runs over the path syntax: the array suffix, the lone
\* suffix and the empty token among the tokens, the empty string among the
\* keys.
KeyEmpty == << >>
RecordsPath == Records(<< KeyA, KeyEmpty >>, MaxNodes)
PathsPath == PathsUpTo({ KeyA, Star, KeyA \o Brackets, Brackets, KeyEmpty }, MaxSegsOne)
RulesPath == RuleLists(PathsPath, KindsMain, 1)

InitPath == InitRedact(RecordsPath, RulesPath)
SpecPath == InitPath /\ [][NextRedact]_vars

(***************************************************************************)
(* redact as a function of (rules, record): the record redact returns, or  *)
(* TypeError when a path application throws.                               *)
(***************************************************************************)
RECURSIVE applyFrom(_, _, _, _)
applyFrom(obj, rs, r, p) ==
  IF r > Len(rs) THEN obj
  ELSE LET after == applyRedaction(obj, rs[r].paths[p], rs[r])
           next == IF p < Len(rs[r].paths) THEN << r, p + 1 >> ELSE << r + 1, 1 >>
       IN  IF threw(after) THEN TypeError
           ELSE applyFrom(after, rs, next[1], next[2])

redactResult(rs, record) == applyFrom(record, rs, 1, 1)

(***************************************************************************)
(* A call of hashValue, one turn of its loop at a time.                    *)
(***************************************************************************)
HashAlphabet == { "a", "~" }

RECURSIVE Strings(_, _)
Strings(alphabet, n) ==
  IF n = 0 THEN { << >> }
  ELSE Strings(alphabet, n - 1)
       \cup { << c >> \o t : c \in alphabet, t \in { u \in Strings(alphabet, n - 1) : Len(u) = n - 1 } }

\* A string whose hash is the minimum int32.
Polygenelubricants ==
  << "p", "o", "l", "y", "g", "e", "n", "e", "l", "u", "b", "r", "i", "c", "a", "n", "t", "s" >>

HashInputs ==
  { Str(t) : t \in Strings(HashAlphabet, MaxStrLen) \cup { Polygenelubricants } }
    \cup { Num(n) : n \in (0 - MaxNum)..MaxNum }
    \cup { Bool(TRUE), Bool(FALSE), Null }

InitHash ==
  /\ rules = << >>
  /\ heap = [x \in {1} |-> Obj(EmptyFn)]
  /\ before = Obj(EmptyFn)
  /\ trace = 1
  /\ redacted = 0
  /\ ri = 0
  /\ pi = 0
  /\ pc = "hashValue"
  /\ value \in HashInputs
  /\ str = Undefined
  /\ i = 0
  /\ hash = 0
  /\ digest = Undefined

\* Lines 140-141; str.length of line 143 throws when str is undefined.
HashBegin ==
  /\ pc = "hashValue"
  /\ str' = hashInput(value)
  /\ hash' = 0
  /\ i' = 0
  /\ pc' = IF hashInput(value).k = "str" THEN "hashLoop" ELSE "threw"
  /\ UNCHANGED << redactVars, value, digest >>

\* Lines 143-147: one turn of the loop.
HashTurn ==
  /\ pc = "hashLoop"
  /\ i < Len(str.v)
  /\ hash' = hashStep(hash, charCodeAt(str.v, i + 1))
  /\ i' = i + 1
  /\ UNCHANGED << redactVars, value, str, digest, pc >>

\* Line 149.
HashReturn ==
  /\ pc = "hashLoop"
  /\ i >= Len(str.v)
  /\ digest' = Str(formatHash(hash))
  /\ pc' = "hashed"
  /\ UNCHANGED << redactVars, value, str, i, hash >>

NextHash == HashBegin \/ HashTurn \/ HashReturn
SpecHash == InitHash /\ [][NextHash]_vars

(***************************************************************************)
(* What the claims speak of.  A location is the way from the root of a     *)
(* record to a node: a sequence of steps, << "k", key >> into a mapping    *)
(* and << "n", index >> into a sequence.                                   *)
(***************************************************************************)
RECURSIVE Locs(_)
Locs(v) ==
  { << >> } \cup
  (IF v.k = "obj"
   THEN UNION { { << << "k", x >> >> \o l : l \in Locs(v.v[x]) } : x \in DOMAIN v.v }
   ELSE IF v.k = "arr"
   THEN UNION { { << << "n", x >> >> \o l : l \in Locs(v.v[x]) } : x \in DOMAIN v.v }
   ELSE {})

\* The node at a location, Undefined when there is none.
RECURSIVE at(_, _)
at(v, loc) ==
  IF loc = << >> THEN v
  ELSE LET step == Head(loc)
       IN  IF step[1] = "k" /\ v.k = "obj" /\ step[2] \in DOMAIN v.v
           THEN at(v.v[step[2]], Tail(loc))
           ELSE IF step[1] = "n" /\ v.k = "arr" /\ step[2] \in DOMAIN v.v
           THEN at(v.v[step[2]], Tail(loc))
           ELSE Undefined

\* The keys along a location: the sequences it passes are left out.
RECURSIVE keyChain(_)
keyChain(loc) ==
  IF loc = << >> THEN << >>
  ELSE (IF Head(loc)[1] = "k" THEN << Head(loc)[2] >> ELSE << >>) \o keyChain(Tail(loc))

isKeyLoc(loc) == loc # << >> /\ loc[Len(loc)][1] = "k"
parentLoc(loc) == SubSeq(loc, 1, Len(loc) - 1)
lastKey(loc) == loc[Len(loc)][2]

\* The keys of the record t that hold a primitive value, by location.
PrimKeyLocs(t) == { l \in Locs(t) : isKeyLoc(l) /\ ~isContainer(at(t, l)) }
\* All keys of the record t, by location.
KeyLocs(t) == { l \in Locs(t) : isKeyLoc(l) }

\* A path's reading of a chain of keys: a literal segment is one key of that
\* name, a wildcard is any one key, and a wildcard in second-to-last place
\* followed by the name t is any number of keys (none included) and then t.
segMatches(key, seg) == seg = Star \/ seg = key
prefixMatches(ks, parts, n) == \A j \in 1..n : segMatches(ks[j], parts[j])
isTrailing(parts) == Len(parts) >= 2 /\ parts[Len(parts) - 1] = Star
isLiteral(parts) == parts # << >> /\ \A j \in 1..Len(parts) : parts[j] # Star

Matched(ks, parts) ==
  IF parts = << >> THEN FALSE
  ELSE IF isTrailing(parts)
  THEN /\ Len(ks) >= Len(parts) - 1
       /\ ks[Len(ks)] = parts[Len(parts)]
       /\ prefixMatches(ks, parts, Len(parts) - 2)
  ELSE IF parts[Len(parts)] = Star THEN FALSE
  ELSE Len(ks) = Len(parts) /\ prefixMatches(ks, parts, Len(parts))

\* The call has returned.
Returned == pc = "returned"
Out == heap[redacted]

\* The runs of one rule with one path.
OneRule == rules[1]
OnePath == OneRule.paths[1]
OneParts == parsePath(OnePath)

\* The key at loc of the input is, in the result, as the rule's action leaves it.
RedactedAt(rule, loc) ==
  CASE rule.action = "mask" ->
         at(Out, loc) = (IF rule.replacement = Undefined THEN Str(REDACTED)
                         ELSE rule.replacement)
    [] rule.action = "remove" ->
         /\ at(Out, parentLoc(loc)).k = "obj"
         /\ lastKey(loc) \notin DOMAIN at(Out, parentLoc(loc)).v
    [] rule.action = "hash" -> at(Out, loc) = hashValue(at(before, loc))

\* The key at loc is in the result, with the value it had.
KeptAt(loc) ==
  /\ at(Out, parentLoc(loc)).k = "obj"
  /\ lastKey(loc) \in DOMAIN at(Out, parentLoc(loc)).v
  /\ at(Out, loc) = at(before, loc)

\* The container-valued key at loc is in the result, a container of its kind.
StandsAt(loc) ==
  /\ at(Out, parentLoc(loc)).k = "obj"
  /\ lastKey(loc) \in DOMAIN at(Out, parentLoc(loc)).v
  /\ at(Out, loc).k = at(before, loc).k

(***************************************************************************)
(* C1.  Non-mutation: the record passed to redact is deep-equal to what    *)
(* the caller passed, before, during and after the call, whether redact    *)
(* returns or throws; what redact changes is the clone it returns.         *)
(***************************************************************************)
C1_NonMutation == heap[trace] = before

\* A call that returned a record that differs from the one it was given.
C1_Witness == Returned /\ Out # before /\ redacted # trace

(***************************************************************************)
(* C2.  Best-effort no-op: redact never throws, and what it returns is     *)
(* what the rule list gives once the paths that resolve to no key of the   *)
(* record are left out of it (such a path changes nothing, the others are  *)
(* applied all the same).                                                  *)
(***************************************************************************)
Resolves(t, path) == \E l \in KeyLocs(t) : Matched(keyChain(l), parsePath(path))

resolvingPaths(t, paths) == SelectSeq(paths, LAMBDA q : Resolves(t, q))

\* The rules with the paths that resolve in t; a rule left without path goes.
Resolving(t, rs) ==
  SelectSeq([r \in DOMAIN rs |->
               Rule(resolvingPaths(t, rs[r].paths), rs[r].action, rs[r].replacement)],
            LAMBDA rule : rule.paths # << >>)

\* C2: no run ends in an exception, and the record returned is the one the
\* resolving paths alone give.
C2_BestEffort ==
  /\ pc # "threw"
  /\ Returned => Out = redactResult(Resolving(before, rules), before)

(***************************************************************************)
(* C3.  Remove completeness: after a remove rule, in every mapping of the  *)
(* record each key that holds a primitive value and that the path matches  *)
(* is no member of the mapping in the result; every other key of the       *)
(* mapping is still there, with its value when primitive and as the same   *)
(* kind of container otherwise.                                            *)
(***************************************************************************)
C3_RemoveCompleteness ==
  (Returned /\ Len(rules) = 1 /\ OneRule.action = "remove") =>
    \A l \in KeyLocs(before) :
      IF isContainer(at(before, l)) THEN StandsAt(l)
      ELSE IF Matched(keyChain(l), OneParts) THEN RedactedAt(OneRule, l)
      ELSE KeptAt(l)

\* A remove that took a key out of a mapping and left a sibling in it.
C3_Witness ==
  /\ Returned /\ Len(rules) = 1 /\ OneRule.action = "remove"
  /\ \E l \in PrimKeyLocs(before), m \in PrimKeyLocs(before) :
       /\ parentLoc(l) = parentLoc(m)
       /\ Matched(keyChain(l), OneParts)
       /\ ~Matched(keyChain(m), OneParts)
       /\ lastKey(l) \notin DOMAIN at(Out, parentLoc(l)).v
       /\ at(Out, m) = at(before, m)

(***************************************************************************)
(* C4.  Mask value: after a mask rule each matched primitive-valued key    *)
(* holds rule.replacement when the rule gives one (the empty string        *)
(* included) and '[REDACTED]' when it gives none; the other keys keep      *)
(* their values.                                                           *)
(***************************************************************************)
C4_MaskValue ==
  (Returned /\ Len(rules) = 1 /\ OneRule.action = "mask") =>
    \A l \in KeyLocs(before) :
      IF isContainer(at(before, l)) THEN StandsAt(l)
      ELSE IF Matched(keyChain(l), OneParts)
      THEN at(Out, l) = (IF OneRule.replacement = Undefined THEN Str(REDACTED)
                         ELSE OneRule.replacement)
      ELSE KeptAt(l)

\* A mask with the empty replacement that hit a key and left a sibling.
C4_Witness ==
  /\ Returned /\ Len(rules) = 1 /\ OneRule.action = "mask"
  /\ OneRule.replacement = Str(<< >>)
  /\ \E l \in PrimKeyLocs(before), m \in PrimKeyLocs(before) :
       /\ parentLoc(l) = parentLoc(m)
       /\ Matched(keyChain(l), OneParts)
       /\ ~Matched(keyChain(m), OneParts)
       /\ at(Out, l) = Str(<< >>)
       /\ at(Out, m) = at(before, m)

(***************************************************************************)
(* C5.  Array transparency: a path of literal segments k1...kn redacts kn  *)
(* in every mapping reached by the keys k1..k(n-1), whatever sequences,    *)
(* and sequences of sequences, lie between the mappings.                   *)
(***************************************************************************)
C5_ArrayTransparency ==
  (Returned /\ Len(rules) = 1 /\ isLiteral(OneParts)) =>
    \A l \in PrimKeyLocs(before) :
      keyChain(l) = OneParts => RedactedAt(OneRule, l)

\* Whether the location passes a sequence held in a sequence.
nestedSeq(loc) == \E j \in 1..(Len(loc) - 1) : loc[j][1] = "n" /\ loc[j + 1][1] = "n"

\* A literal path of two segments that redacted a key below a sequence of
\* sequences.
C5_Witness ==
  /\ Returned /\ Len(rules) = 1 /\ isLiteral(OneParts) /\ Len(OneParts) = 2
  /\ \E l \in PrimKeyLocs(before) :
       /\ keyChain(l) = OneParts
       /\ nestedSeq(l)
       /\ at(Out, l) # at(before, l)

(***************************************************************************)
(* C6.  Trailing wildcard: with '*' in second-to-last place, evaluated at  *)
(* mapping M, every primitive-valued key named as the last segment is      *)
(* redacted wherever it lies under M (on M itself, and at any depth        *)
(* through mappings and sequences), and every key of another name or       *)
(* outside M keeps its value.                                              *)
(***************************************************************************)
C6_TrailingWildcard ==
  (Returned /\ Len(rules) = 1 /\ isTrailing(OneParts)) =>
    \A l \in PrimKeyLocs(before) :
      IF Matched(keyChain(l), OneParts) THEN RedactedAt(OneRule, l) ELSE KeptAt(l)

\* A trailing wildcard that redacted the key on M itself and the same key
\* two mappings further down.
C6_Witness ==
  /\ Returned /\ Len(rules) = 1 /\ isTrailing(OneParts)
  /\ \E l \in PrimKeyLocs(before), m \in PrimKeyLocs(before) :
       /\ Len(keyChain(l)) = Len(OneParts) - 1
       /\ Len(keyChain(m)) >= Len(OneParts) + 1
       /\ Matched(keyChain(l), OneParts) /\ Matched(keyChain(m), OneParts)
       /\ at(Out, l) # at(before, l) /\ at(Out, m) # at(before, m)

(***************************************************************************)
(* C7.  Mid-path wildcard: a '*' followed by at least two segments, the    *)
(* next of them literal, stands for exactly one key: a primitive-valued    *)
(* key is changed only if the key right after the wildcard's own is that   *)
(* literal, and when no wildcard is in second-to-last place the changed    *)
(* keys are those whose chain of keys is as long as the path and agrees    *)
(* with it segment by segment.                                             *)
(***************************************************************************)
MidWildcards(parts) ==
  { j \in 1..(Len(parts) - 2) : parts[j] = Star /\ parts[j + 1] # Star }

Changed(loc) == ~KeptAt(loc)

C7_MidWildcard ==
  (Returned /\ Len(rules) = 1 /\ MidWildcards(OneParts) # {}) =>
    \A l \in PrimKeyLocs(before) :
      /\ Changed(l) =>
           \A j \in MidWildcards(OneParts) :
             Len(keyChain(l)) >= j + 1 /\ keyChain(l)[j + 1] = OneParts[j + 1]
      /\ ~isTrailing(OneParts) =>
           IF Matched(keyChain(l), OneParts) THEN RedactedAt(OneRule, l)
           ELSE KeptAt(l)

\* A mid-path wildcard that redacted the target one mapping below it and
\* left alone the same target two mappings below it.
C7_Witness ==
  /\ Returned /\ Len(rules) = 1 /\ MidWildcards(OneParts) = {1}
  /\ Len(OneParts) = 3 /\ OneParts[3] # Star
  /\ \E l \in PrimKeyLocs(before) :
       /\ Len(keyChain(l)) = 4
       /\ SubSeq(keyChain(l), 3, 4) = SubSeq(OneParts, 2, 3)
       /\ keyChain(l)[2] # OneParts[2]
       /\ at(Out, l) = at(before, l)

(***************************************************************************)
(* C8.  Ordered, cumulative application: the outcome of redact (the record *)
(* returned, or the exception) is that of applying the paths one by one in *)
(* list order, rule after rule, each to what the one before left; so for   *)
(* every cut of the list into A then B it is the outcome of B on the       *)
(* outcome of A.  A hash after a mask of the same key hashes the           *)
(* replacement, and nothing brings back a key that a remove took away.     *)
(***************************************************************************)
\* One rule per path, in order.
RECURSIVE Flatten(_)
Flatten(rs) ==
  IF rs = << >> THEN << >>
  ELSE [p \in DOMAIN Head(rs).paths |->
          Rule(<< Head(rs).paths[p] >>, Head(rs).action, Head(rs).replacement)]
       \o Flatten(Tail(rs))

Outcome == IF pc = "threw" THEN TypeError ELSE Out

thenRedact(rs, outcome) ==
  IF outcome = TypeError THEN TypeError ELSE redactResult(rs, outcome)

\* Every cut of the list composes.
CutsCompose ==
  LET flat == Flatten(rules)
  IN  \A n \in 0..Len(flat) :
        Outcome = thenRedact(SubSeq(flat, n + 1, Len(flat)),
                             redactResult(SubSeq(flat, 1, n), before))

\* Two applications of one path: the second acts on what the first left.
SameKeyTwice ==
  LET flat == Flatten(rules)
  IN  (Returned /\ Len(flat) = 2 /\ flat[1].paths = flat[2].paths) =>
        \A l \in PrimKeyLocs(before) :
          Matched(keyChain(l), parsePath(flat[1].paths[1])) =>
            /\ (flat[1].action = "mask" /\ flat[2].action = "hash") =>
                 at(Out, l) = hashValue(Str(REDACTED))
            /\ flat[1].action = "remove" =>
                 lastKey(l) \notin DOMAIN at(Out, parentLoc(l)).v

\* The composition alone, once the call is over.
CutsComposeAtEnd == (pc \in { "returned", "threw" }) => CutsCompose

\* C8: once the call is over every cut composes, and a second application
\* of a path acts on what the first left (a removed key stays removed).
C8_OrderedCumulative ==
  (pc \in { "returned", "threw" }) => (CutsCompose /\ SameKeyTwice)

(***************************************************************************)
(* C9.  Idempotence of remove: with remove rules only, redacting what      *)
(* redact returned, with the same rules, gives that same record.           *)
(***************************************************************************)
C9_RemoveIdempotent ==
  (Returned /\ \A r \in DOMAIN rules : rules[r].action = "remove") =>
    redactResult(rules, Out) = Out

\* Two remove paths, a wildcard among them, that both took keys away.
C9_Witness ==
  /\ Returned /\ Len(Flatten(rules)) = 2
  /\ \A r \in DOMAIN rules : rules[r].action = "remove"
  /\ \E r \in DOMAIN rules : \E p \in DOMAIN rules[r].paths :
       isTrailing(parsePath(rules[r].paths[p]))
  /\ redactResult(SubSeq(Flatten(rules), 1, 1), before) # before
  /\ redactResult(SubSeq(Flatten(rules), 1, 1), before) # Out

(***************************************************************************)
(* C10.  Hash format: for a string, a number, a boolean or null hashValue  *)
(* returns '[HASH:' then exactly 8 lowercase hexadecimal digits then ']',  *)
(* the rolling hash being after every turn the 32-bit integer the turns    *)
(* so far give, also when it is negative or the minimum; and the digest is *)
(* the one function of the value that redactValue writes.                  *)
(***************************************************************************)
HexDigits == { Digits[n] : n \in 1..16 }

IsDigest(d) ==
  /\ d.k = "str"
  /\ Len(d.v) = 15
  /\ SubSeq(d.v, 1, 6) = << "[", "H", "A", "S", "H", ":" >>
  /\ \A n \in 7..14 : d.v[n] \in HexDigits
  /\ d.v[15] = "]"

C10_HashFormat ==
  /\ pc = "hashLoop" => hash = hashLoop(str.v, i) /\ ToInt32(Word(hash)) = hash
  /\ pc = "hashed" => IsDigest(digest) /\ digest = hashValue(value)

\* The digest of a string whose hash is the minimum 32-bit value.
C10_Witness ==
  /\ pc = "hashed"
  /\ hash = (0 - 2147483647) - 1
  /\ digest = Str(<< "[", "H", "A", "S", "H", ":",
                     "8", "0", "0", "0", "0", "0", "0", "0", "]" >>)

(***************************************************************************)
(* C11.  The array suffix is documentary: a path gives the result of the   *)
(* path written without it (each token key[] written key, each lone []     *)
(* left out; nothing changes when no token is left), and no segment of the *)
(* compiled path holds the suffix.                                         *)
(***************************************************************************)
hasSuffix(token) ==
  Len(token) >= 2 /\ SubSeq(token, Len(token) - 1, Len(token)) = Brackets

\* The tokens with the suffix taken off and the lone suffixes left out.
RECURSIVE plainTokens(_)
plainTokens(tokens) ==
  IF tokens = << >> THEN << >>
  ELSE LET t == Head(tokens)
       IN  (IF t = Brackets THEN << >>
            ELSE IF hasSuffix(t) THEN << SubSeq(t, 1, Len(t) - 2) >>
            ELSE << t >>) \o plainTokens(Tail(tokens))

Suffixed(path) == \E j \in DOMAIN split(path, ".") : hasSuffix(split(path, ".")[j])

\* What the path written without the suffix gives on the record passed in.
plainResult ==
  LET tokens == plainTokens(split(OnePath, "."))
  IN  IF tokens = << >> THEN before
      ELSE redactResult(<< Rule(<< join(tokens) >>, OneRule.action, OneRule.replacement) >>,
                        before)

C11_SuffixDocumentary ==
  (Returned /\ Len(rules) = 1 /\ Suffixed(OnePath)) =>
    /\ Out = plainResult
    /\ \A j \in DOMAIN OneParts : ~includes(OneParts[j], Brackets)

\* A path a.[].a[] that redacted a key below a sequence, as a.a does.
C11_Witness ==
  /\ Returned /\ Len(rules) = 1
  /\ split(OnePath, ".") = << KeyA, Brackets, KeyA \o Brackets >>
  /\ Out # before
  /\ \E l \in PrimKeyLocs(before) :
       keyChain(l) = << KeyA, KeyA >> /\ Len(l) > 2 /\ at(Out, l) # at(before, l)

(***************************************************************************)
(* C12.  Container-valued targets.  As the code has it: whatever the       *)
(* action (mask, hash or remove), a key the path matches that holds a      *)
(* mapping or a sequence stays in its mapping; with no trailing wildcard   *)
(* its whole subtree is as it was, and under a trailing wildcard the       *)
(* search goes on inside it, redacting the primitive-valued keys of the    *)
(* searched name and no other.                                             *)
(***************************************************************************)
isUnder(m, l) == Len(m) > Len(l) /\ SubSeq(m, 1, Len(l)) = l

\* The keys of the input that hold a container and that the path matches.
ContainerTargets ==
  { l \in KeyLocs(before) : isContainer(at(before, l)) /\ Matched(keyChain(l), OneParts) }

\* The matched container at l is left as mask and hash leave it.
SkippedAt(l) ==
  /\ StandsAt(l)
  /\ ~isTrailing(OneParts) => at(Out, l) = at(before, l)
  /\ isTrailing(OneParts) =>
       \A m \in PrimKeyLocs(before) :
         isUnder(m, l) =>
           IF lastKey(m) = OneParts[Len(OneParts)] THEN RedactedAt(OneRule, m)
           ELSE KeptAt(m)

C12_ContainerTargets ==
  (Returned /\ Len(rules) = 1) => \A l \in ContainerTargets : SkippedAt(l)

\* C12 as stated: mask and hash skip the container, remove deletes its key.
C12_RemoveDeletesContainer ==
  (Returned /\ Len(rules) = 1) =>
    \A l \in ContainerTargets :
      IF OneRule.action = "remove"
      THEN at(Out, parentLoc(l)).k = "obj" =>
             lastKey(l) \notin DOMAIN at(Out, parentLoc(l)).v
      ELSE SkippedAt(l)

\* A remove by trailing wildcard that met the searched key holding a
\* mapping, left it in place and removed the same key inside it.
C12_Witness ==
  /\ Returned /\ Len(rules) = 1 /\ OneRule.action = "remove" /\ isTrailing(OneParts)
  /\ \E l \in ContainerTargets : \E m \in PrimKeyLocs(before) :
       /\ isUnder(m, l)
       /\ lastKey(m) = lastKey(l)
       /\ at(Out, l).k = "obj"
       /\ at(Out, m) = Undefined

(***************************************************************************)
(* C13.  Empty literal segments: a path of two or more tokens, one of them *)
(* empty (a..a, a path ending in '.'), compiles to segments among which is *)
(* the empty string, and redacts nothing: the record returned equals the   *)
(* one passed in.                                                          *)
(***************************************************************************)
EmptyToken(path) ==
  /\ Len(split(path, ".")) >= 2
  /\ \E j \in DOMAIN split(path, ".") : split(path, ".")[j] = KeyEmpty

C13_EmptySegmentInert ==
  (Returned /\ Len(rules) = 1 /\ EmptyToken(OnePath)) =>
    /\ \E j \in DOMAIN OneParts : OneParts[j] = KeyEmpty
    /\ Out = before

\* The same over the records none of whose keys is the empty string.
HasEmptyKey(t) == \E l \in KeyLocs(t) : lastKey(l) = KeyEmpty

EmptySegmentInertOnNamedKeys == HasEmptyKey(before) \/ C13_EmptySegmentInert

=============================================================================
